---- MODULE Spec2Model ----
(***************************************************************************)
(* Workload replay driver (src/workload_parser.py): the reset/flag policy  *)
(* of WorkloadParser.parse_workload, the database reset action, the        *)
(* command tokenizer and the command dispatcher.                           *)
(*                                                                         *)
(* Text is modelled by TLA+ strings; a character is a string of length 1   *)
(* obtained with SubSeq, so str.strip, str.split, str.startswith,          *)
(* str.upper, str.lower, int() and float() are computed character by       *)
(* character.                                                              *)
(***************************************************************************)
EXTENDS Integers, Sequences, FiniteSets, TLC

(***************************************************************************)
(* Bounds of the model.                                                    *)
(***************************************************************************)
\* longest workload file (in lines) of the driver specification
MaxLines == 3
\* longest workload file (in lines) of the dispatcher specification
MaxDispatchLines == 1
\* number of consecutive calls of reset_databases in the reset specification
MaxResetCalls == 2
\* longest workload file (in lines) of the keyword-case specification
MaxCaseLines == 2
\* longest workload file (in lines) of the consecutive-runs specification
MaxRunLines == 2

(***************************************************************************)
(* Python string operations.                                               *)
(***************************************************************************)
CharAt(s, i) == SubSeq(s, i, i)

\* the characters str.strip() and str.split() treat as whitespace
Whitespace == {" ", "\t", "\n", "\r"}

IsSpace(c) == c \in Whitespace

\* index of the first non-whitespace character, Len(s) + 1 when there is none
RECURSIVE FirstNonSpace(_, _)
FirstNonSpace(s, i) ==
    IF i > Len(s) THEN i
    ELSE IF IsSpace(CharAt(s, i)) THEN FirstNonSpace(s, i + 1)
    ELSE i

\* index of the last non-whitespace character, 0 when there is none
RECURSIVE LastNonSpace(_, _)
LastNonSpace(s, i) ==
    IF i < 1 THEN 0
    ELSE IF IsSpace(CharAt(s, i)) THEN LastNonSpace(s, i - 1)
    ELSE i

\* str.strip()
Strip(s) == SubSeq(s, FirstNonSpace(s, 1), LastNonSpace(s, Len(s)))

\* str.startswith(p)
StartsWith(s, p) == Len(s) >= Len(p) /\ SubSeq(s, 1, Len(p)) = p

\* index of the first whitespace character at or after i, Len(s) + 1 when none
RECURSIVE NextSpace(_, _)
NextSpace(s, i) ==
    IF i > Len(s) THEN i
    ELSE IF IsSpace(CharAt(s, i)) THEN i
    ELSE NextSpace(s, i + 1)

\* str.split(): the maximal runs of non-whitespace characters, in order
RECURSIVE SplitFrom(_, _)
SplitFrom(s, i) ==
    LET b == FirstNonSpace(s, i)
        e == NextSpace(s, b)
    IN  IF b > Len(s) THEN << >>
        ELSE << SubSeq(s, b, e - 1) >> \o SplitFrom(s, e)

Split(s) == SplitFrom(s, 1)

LowerLetters == "abcdefghijklmnopqrstuvwxyz"
UpperLetters == "ABCDEFGHIJKLMNOPQRSTUVWXYZ"

\* position of character c in the alphabet string abc, 0 when it is not in it
RECURSIVE IndexIn(_, _, _)
IndexIn(abc, c, i) ==
    IF i > Len(abc) THEN 0
    ELSE IF CharAt(abc, i) = c THEN i
    ELSE IndexIn(abc, c, i + 1)

\* the upper-case letter of each lower-case letter, and the converse
LowerToUpper ==
    [c \in {CharAt(LowerLetters, i) : i \in 1..Len(LowerLetters)} |->
        CharAt(UpperLetters, IndexIn(LowerLetters, c, 1))]

UpperToLower ==
    [c \in {CharAt(UpperLetters, i) : i \in 1..Len(UpperLetters)} |->
        CharAt(LowerLetters, IndexIn(UpperLetters, c, 1))]

UpperChar(c) == IF c \in DOMAIN LowerToUpper THEN LowerToUpper[c] ELSE c

LowerChar(c) == IF c \in DOMAIN UpperToLower THEN UpperToLower[c] ELSE c

\* str.upper()
RECURSIVE Upper(_)
Upper(s) == IF Len(s) = 0 THEN "" ELSE UpperChar(CharAt(s, 1)) \o Upper(Tail(s))

\* str.lower()
RECURSIVE Lower(_)
Lower(s) == IF Len(s) = 0 THEN "" ELSE LowerChar(CharAt(s, 1)) \o Lower(Tail(s))

\* index of the first occurrence of character c at or after i, 0 when none
RECURSIVE Find(_, _, _)
Find(s, c, i) ==
    IF i > Len(s) THEN 0
    ELSE IF CharAt(s, i) = c THEN i
    ELSE Find(s, c, i + 1)

\* str.split(c, 1): at most one split, at the first occurrence of c
SplitOnce(s, c) ==
    LET k == Find(s, c, 1)
    IN  IF k = 0 THEN << s >>
        ELSE << SubSeq(s, 1, k - 1), SubSeq(s, k + 1, Len(s)) >>

Digits == "0123456789"

\* the value of each decimal digit
DigitValues ==
    [c \in {CharAt(Digits, i) : i \in 1..Len(Digits)} |-> IndexIn(Digits, c, 1) - 1]

IsDigit(c) == c \in DOMAIN DigitValues

DigitValue(c) == DigitValues[c]

RECURSIVE AllDigits(_)
AllDigits(s) == Len(s) = 0 \/ (IsDigit(CharAt(s, 1)) /\ AllDigits(Tail(s)))

HasSign(s) == Len(s) > 0 /\ CharAt(s, 1) \in {"+", "-"}

Unsigned(s) == IF HasSign(s) THEN Tail(s) ELSE s

RECURSIVE DigitsValue(_, _)
DigitsValue(s, acc) ==
    IF Len(s) = 0 THEN acc
    ELSE DigitsValue(Tail(s), 10 * acc + DigitValue(CharAt(s, 1)))

\* int(s) succeeds: an optional sign followed by one or more decimal digits
\* (the token holds no whitespace: it comes out of str.split())
IsIntText(s) == Len(Unsigned(s)) > 0 /\ AllDigits(Unsigned(s))

\* int(s), for s with IsIntText(s)
IntOf(s) ==
    LET m == DigitsValue(Unsigned(s), 0)
    IN  IF HasSign(s) /\ CharAt(s, 1) = "-" THEN 0 - m ELSE m

\* str(n) of a natural number, as json.dumps writes it
RECURSIVE NatText(_)
NatText(n) ==
    IF n < 10 THEN CharAt(Digits, n + 1)
    ELSE NatText(n \div 10) \o CharAt(Digits, (n % 10) + 1)

\* json.dumps of an int
IntJson(n) == IF n < 0 THEN "-" \o NatText(0 - n) ELSE NatText(n)

\* json.dumps of a str (the texts of the model hold no character to escape)
StrJson(s) == "\"" \o s \o "\""

\* position of the first "." of s, 0 when it has none
DotAt(s) == Find(s, ".", 1)

\* the digits before and after the decimal point of an unsigned decimal text
IntPart(s) == IF DotAt(s) = 0 THEN s ELSE SubSeq(s, 1, DotAt(s) - 1)
FracPart(s) == IF DotAt(s) = 0 THEN "" ELSE SubSeq(s, DotAt(s) + 1, Len(s))

\* float(s) succeeds, for the decimal texts of the model (no exponent, no
\* inf/nan): an optional sign, digits with at most one ".", at least one digit
IsFloatText(s) ==
    LET u == Unsigned(s)
    IN  /\ AllDigits(IntPart(u))
        /\ AllDigits(FracPart(u))
        /\ Len(IntPart(u)) + Len(FracPart(u)) > 0

RECURSIVE DropLeadingZeros(_)
DropLeadingZeros(s) ==
    IF Len(s) > 0 /\ CharAt(s, 1) = "0" THEN DropLeadingZeros(Tail(s)) ELSE s

RECURSIVE DropTrailingZeros(_)
DropTrailingZeros(s) ==
    IF Len(s) > 0 /\ CharAt(s, Len(s)) = "0"
    THEN DropTrailingZeros(SubSeq(s, 1, Len(s) - 1))
    ELSE s

\* json.dumps of float(s), for s with IsFloatText(s) and a value that repr()
\* writes in positional notation: "9.50" -> "9.5", "10" -> "10.0", ".5" -> "0.5"
FloatJson(s) ==
    LET u == Unsigned(s)
        ip == DropLeadingZeros(IntPart(u))
        fp == DropTrailingZeros(FracPart(u))
    IN  (IF HasSign(s) /\ CharAt(s, 1) = "-" THEN "-" ELSE "")
        \o (IF Len(ip) = 0 THEN "0" ELSE ip)
        \o "."
        \o (IF Len(fp) = 0 THEN "0" ELSE fp)

(***************************************************************************)
(* The command dispatcher.  A handler first builds its request inside a    *)
(* try block; the outcome of that phase is one of                          *)
(*   NoBranch      no branch of the handler matches the action             *)
(*   Escaped       an exception left process_command (raised outside every *)
(*                 try block); no handler of the source produces it        *)
(*   Raised(t)     building the request raised; the except clause writes t *)
(*   Send(...)     the request handed to requests.post / requests.get,     *)
(*                 with the text the except clause writes if the call      *)
(*                 raises                                                  *)
(***************************************************************************)
\* the placeholder written by the except clauses of the USER and PRODUCT
\* handlers: print("Failed:  {}")
FailedPlaceholder == "Failed:  {}"

\* the text written by the except clause of ORDER place
FailedInvalidRequest == "Failed: {\"status\":\"Invalid Request\"}"

\* print("Successful: ", response.text): print separates its arguments by " "
SuccessfulText(text) == "Successful: " \o " " \o text

\* print("Failed: ", response.text)
FailedText(text) == "Failed: " \o " " \o text

NoBranch == [kind |-> "none"]

Escaped == [kind |-> "escape"]

Raised(onExcept) == [kind |-> "raise", onExcept |-> onExcept]

JsonHeaders == [h \in {"Content-Type"} |-> "application/json"]

NoHeaders == [h \in {} |-> ""]

NoPayload == [k \in {} |-> ""]

\* requests.post(base_endpoint, json=payload, headers=headers)
PostRequest(url, payload, onExcept) ==
    [kind |-> "send", method |-> "POST", url |-> url, headers |-> JsonHeaders,
     payload |-> payload, onExcept |-> onExcept]

\* requests.get(endpoint)
GetRequest(url, onExcept) ==
    [kind |-> "send", method |-> "GET", url |-> url, headers |-> NoHeaders,
     payload |-> NoPayload, onExcept |-> onExcept]

\* payload[key] = value
SetField(payload, key, value) == (key :> value) @@ payload

\* every arg of args[1:] splits into key and value: no ValueError on unpacking
\* `key, value = arg.split(':', 1)`
UpdateArgsOk(args) ==
    \A i \in 2..Len(args) : Len(SplitOnce(args[i], ":")) = 2

\* the loop `for arg in args[1:]: key, value = arg.split(':', 1);
\* payload[key] = value`, from argument i on
RECURSIVE UpdateFields(_, _, _)
UpdateFields(payload, args, i) ==
    IF i > Len(args) THEN payload
    ELSE LET kv == SplitOnce(args[i], ":")
         IN  UpdateFields(SetField(payload, kv[1], StrJson(kv[2])), args, i + 1)

\* the update branch of handle_user_command and of handle_product_command
UpdateCommand(base_endpoint, args) ==
    IF Len(args) >= 1 /\ IsIntText(args[1]) /\ UpdateArgsOk(args)
    THEN PostRequest(base_endpoint,
             UpdateFields(("command" :> StrJson("update"))
                          @@ ("id" :> IntJson(IntOf(args[1]))), args, 2),
             FailedPlaceholder)
    ELSE Raised(FailedPlaceholder)

\* the create and delete branches of handle_user_command build the same fields
UserRecordCommand(base_endpoint, command, args) ==
    IF Len(args) >= 4 /\ IsIntText(args[1])
    THEN PostRequest(base_endpoint,
             ("command" :> StrJson(command))
             @@ ("id" :> IntJson(IntOf(args[1])))
             @@ ("username" :> StrJson(args[2]))
             @@ ("email" :> StrJson(args[3]))
             @@ ("password" :> StrJson(args[4])),
             FailedPlaceholder)
    ELSE Raised(FailedPlaceholder)

\* the get branch of handle_user_command and the info branch of
\* handle_product_command: the id is not coerced, it is put in the path as is
LookupCommand(base_endpoint, args) ==
    IF Len(args) >= 1
    THEN GetRequest(base_endpoint \o "/" \o args[1], FailedPlaceholder)
    ELSE Raised(FailedPlaceholder)

\* mutant: a final else branch that reports an unknown USER action
HandleUserCommandReportsUnknown(order_service_url, command, args) ==
    IF command \in {"create", "get", "update", "delete"}
    THEN GetRequest(order_service_url \o "/user", FailedPlaceholder)
    ELSE Raised(FailedPlaceholder)

HandleUserCommand(order_service_url, command, args) ==
    LET base_endpoint == order_service_url \o "/user"
    IN  CASE command = "create" -> UserRecordCommand(base_endpoint, "create", args)
          [] command = "get"    -> LookupCommand(base_endpoint, args)
          [] command = "update" -> UpdateCommand(base_endpoint, args)
          [] command = "delete" -> UserRecordCommand(base_endpoint, "delete", args)
          [] OTHER              -> NoBranch

ProductCreate(base_endpoint, args) ==
    IF /\ Len(args) >= 5
       /\ IsIntText(args[1]) /\ IsFloatText(args[4]) /\ IsIntText(args[5])
    THEN PostRequest(base_endpoint,
             ("command" :> StrJson("create"))
             @@ ("id" :> IntJson(IntOf(args[1])))
             @@ ("name" :> StrJson(args[2]))
             @@ ("description" :> StrJson(args[3]))
             @@ ("price" :> FloatJson(args[4]))
             @@ ("quantity" :> IntJson(IntOf(args[5]))),
             FailedPlaceholder)
    ELSE Raised(FailedPlaceholder)

ProductDelete(base_endpoint, args) ==
    IF /\ Len(args) >= 4
       /\ IsIntText(args[1]) /\ IsFloatText(args[3]) /\ IsIntText(args[4])
    THEN PostRequest(base_endpoint,
             ("command" :> StrJson("delete"))
             @@ ("id" :> IntJson(IntOf(args[1])))
             @@ ("name" :> StrJson(args[2]))
             @@ ("price" :> FloatJson(args[3]))
             @@ ("quantity" :> IntJson(IntOf(args[4]))),
             FailedPlaceholder)
    ELSE Raised(FailedPlaceholder)

\* mutant: the PRODUCT handler posts to the endpoint of the USER handler
HandleProductCommandUserPath(order_service_url, command, args) ==
    LET base_endpoint == order_service_url \o "/user"
    IN  CASE command = "create" -> ProductCreate(base_endpoint, args)
          [] command = "info"   -> LookupCommand(base_endpoint, args)
          [] command = "update" -> UpdateCommand(base_endpoint, args)
          [] command = "delete" -> ProductDelete(base_endpoint, args)
          [] OTHER              -> NoBranch

HandleProductCommand(order_service_url, command, args) ==
    LET base_endpoint == order_service_url \o "/product"
    IN  CASE command = "create" -> ProductCreate(base_endpoint, args)
          [] command = "info"   -> LookupCommand(base_endpoint, args)
          [] command = "update" -> UpdateCommand(base_endpoint, args)
          [] command = "delete" -> ProductDelete(base_endpoint, args)
          [] OTHER              -> NoBranch

\* mutant: the payload of ORDER place built before the try block
OrderPlaceUnguarded(base_endpoint, args) ==
    IF /\ Len(args) >= 3
       /\ IsIntText(args[1]) /\ IsIntText(args[2]) /\ IsIntText(args[3])
    THEN PostRequest(base_endpoint \o "/order", NoPayload, FailedInvalidRequest)
    ELSE Escaped

OrderPlace(base_endpoint, args) ==
    IF /\ Len(args) >= 3
       /\ IsIntText(args[1]) /\ IsIntText(args[2]) /\ IsIntText(args[3])
    THEN PostRequest(base_endpoint,
             ("command" :> StrJson("place order"))
             @@ ("product_id" :> IntJson(IntOf(args[1])))
             @@ ("user_id" :> IntJson(IntOf(args[2])))
             @@ ("quantity" :> IntJson(IntOf(args[3]))),
             FailedInvalidRequest)
    ELSE Raised(FailedInvalidRequest)

HandleOrderCommand(order_service_url, command, args) ==
    LET base_endpoint == order_service_url \o "/order"
    IN  CASE command = "place" -> OrderPlace(base_endpoint, args)
          [] OTHER             -> NoBranch

\* mutant: the service word compared as written, without upper()
TokensOfCaseSensitive(parts) ==
    [service |-> parts[1],
     command |-> IF Len(parts) > 1 THEN Lower(parts[2]) ELSE "",
     args    |-> SubSeq(parts, 3, Len(parts))]

\* the tokenizer of process_command: parts = line.split(),
\* service = parts[0].upper(), command = parts[1].lower() or "", parts[2:]
TokensOf(parts) ==
    [service |-> Upper(parts[1]),
     command |-> IF Len(parts) > 1 THEN Lower(parts[2]) ELSE "",
     args    |-> SubSeq(parts, 3, Len(parts))]

Tokenize(line) == TokensOf(Split(line))

\* the if/elif chain of process_command
Dispatch(order_service_url, t) ==
    CASE t.service = "USER" ->
             HandleUserCommand(order_service_url, t.command, t.args)
      [] t.service = "PRODUCT" ->
             HandleProductCommand(order_service_url, t.command, t.args)
      [] t.service = "ORDER" ->
             HandleOrderCommand(order_service_url, t.command, t.args)
      [] OTHER -> NoBranch

\* process_command(line), up to the HTTP call of the handler it selects
ProcessCommand(order_service_url, line) ==
    IF Len(Split(line)) = 0 THEN NoBranch
    ELSE Dispatch(order_service_url, Tokenize(line))

(***************************************************************************)
(* The database files and the reset action.                                *)
(***************************************************************************)
\* db_files of reset_databases, in list order
DbFiles ==
    << "compiled/UserService/users.txt",
       "compiled/ProductService/products.txt",
       "compiled/OrderService/orders.txt" >>

DbFileSet == {DbFiles[i] : i \in 1..Len(DbFiles)}

\* what the filesystem holds at a database file's path: "nodir" (the parent
\* directory is missing, hence the file too), "absent" (directory only),
\* "empty" (a file of length 0), "populated" (a file the service has written)
FileStates == {"nodir", "absent", "empty", "populated"}

\* os.path.exists(db_file)
FileExists(st) == st \in {"empty", "populated"}

\* os.remove(db_file)
RemoveFile(st) == "absent"

\* os.makedirs(os.path.dirname(db_file), exist_ok=True)
MakeDirs(st) == IF st = "nodir" THEN "absent" ELSE st

\* open(db_file, 'w').close(): creates the file or truncates it
OpenForWrite(st) == "empty"

\* one iteration of the first loop of reset_databases
DeleteStep(fsys, f) ==
    IF FileExists(fsys[f]) THEN [fsys EXCEPT ![f] = RemoveFile(fsys[f])] ELSE fsys

\* one iteration of the second loop of reset_databases
RecreateStep(fsys, f) == [fsys EXCEPT ![f] = OpenForWrite(MakeDirs(fsys[f]))]

\* the filesystem after the first k file operations of reset_databases:
\* operations 1..3 are the delete loop, 4..6 the recreate loop
RECURSIVE ResetPrefix(_, _)
ResetPrefix(fsys, k) ==
    IF k = 0 THEN fsys
    ELSE LET before == ResetPrefix(fsys, k - 1)
         IN  IF k <= Len(DbFiles) THEN DeleteStep(before, DbFiles[k])
             ELSE RecreateStep(before, DbFiles[k - Len(DbFiles)])

\* mutant: reset_databases without its recreate loop
ResetDatabasesDeleteOnly(fsys) == ResetPrefix(fsys, Len(DbFiles))

\* reset_databases(), run to completion
ResetDatabases(fsys) == ResetPrefix(fsys, 2 * Len(DbFiles))

\* operation k of reset_databases touches the filesystem, so it can fail
ResetOpCanFail(fsys, k) ==
    IF k > Len(DbFiles) THEN TRUE
    ELSE FileExists(ResetPrefix(fsys, k - 1)[DbFiles[k]])

(***************************************************************************)
(* The replay driver.                                                      *)
(***************************************************************************)
\* `if not line or line.startswith('#') or line.startswith('//')`
IsSkipped(line) == Len(line) = 0 \/ StartsWith(line, "#") \/ StartsWith(line, "//")

\* index of the first line at or after i that is not skipped, 0 when none
\* (first_real_command stays None)
RECURSIVE FirstRealFrom(_, _)
FirstRealFrom(ls, i) ==
    IF i > Len(ls) THEN 0
    ELSE IF ~IsSkipped(ls[i]) THEN i
    ELSE FirstRealFrom(ls, i + 1)

\* mutant: the first real line compared with the keyword in any letter case
RestartCommandAnyCase(ls) ==
    LET k == FirstRealFrom(ls, 1) IN k # 0 /\ Lower(ls[k]) = "restart"

\* restart_command = (first_real_command == "restart")
RestartCommand(ls) ==
    LET k == FirstRealFrom(ls, 1) IN k # 0 /\ ls[k] = "restart"

\* mutant: the reset condition without the flag check
ShouldResetIgnoringFlag(flagExists, ls) == ~RestartCommand(ls)

\* mutant: the reset condition without the restart check
ShouldResetIgnoringRestart(flagExists, ls) == ~flagExists

\* `if not os.path.exists(self.restart_flag_file) and not restart_command`
ShouldReset(flagExists, ls) == ~flagExists /\ ~RestartCommand(ls)

\* mutant: the flag file is never created
FlagAfterPolicyNoCreate(flagExists) == flagExists

\* `if not os.path.exists(self.restart_flag_file): open(..., 'w')`
FlagAfterPolicy(flagExists) == IF ~flagExists THEN TRUE ELSE flagExists

\* mutant: the flag file is not removed
FlagAfterShutdownKeeps(flagExists) == flagExists

\* `if os.path.exists(self.restart_flag_file): os.remove(...)`
FlagAfterShutdown(flagExists) == IF flagExists THEN FALSE ELSE flagExists

\* mutant: the shutdown keyword matched as a prefix of the line
IsShutdownPrefix(line) == StartsWith(line, "shutdown")

\* mutant: the shutdown keyword compared against another spelling
IsShutdownCaseSlip(line) == line = "Shutdown"

\* `if line == "shutdown"`
IsShutdown(line) == line = "shutdown"

\* `elif line == "restart"`
IsRestart(line) == line = "restart"

\* `if response.status_code == 200`
StatusOK == 200

\* mutant: every 2xx status counts as success
ReportResponseAny2xx(status, text) ==
    IF status >= StatusOK /\ status < StatusOK + 100
    THEN SuccessfulText(text) ELSE FailedText(text)

\* the line a handler writes for a response
ReportResponse(status, text) ==
    IF status = StatusOK THEN SuccessfulText(text) ELSE FailedText(text)

(***************************************************************************)
(* Inputs: configuration files, workload files, HTTP responses and the     *)
(* filesystem the first run finds.                                         *)
(***************************************************************************)
\* a config file: whether open() finds it, whether json.load() parses it, and
\* the parsed object (service name -> field -> text)
ConfigSamples ==
    { [exists |-> TRUE, wellFormed |-> TRUE,
       json |-> [s \in {"OrderService", "UserService"} |->
                    [k \in {"ip", "port"} |-> IF k = "ip" THEN "127.0.0.1" ELSE "14000"]]],
      [exists |-> FALSE, wellFormed |-> FALSE, json |-> [s \in {} |-> ""]],
      [exists |-> TRUE, wellFormed |-> FALSE, json |-> [s \in {} |-> ""]],
      [exists |-> TRUE, wellFormed |-> TRUE,
       json |-> [s \in {"UserService"} |-> [k \in {"ip", "port"} |-> "1"]]],
      [exists |-> TRUE, wellFormed |-> TRUE,
       json |-> [s \in {"OrderService"} |-> [k \in {"ip"} |-> "127.0.0.1"]]],
      [exists |-> TRUE, wellFormed |-> TRUE,
       json |-> [s \in {"OrderService"} |-> [k \in {"port"} |-> "14000"]]] }

\* WorkloadParser.__init__ returns: open, json.load and the three lookups
\* config['OrderService'], ['ip'], ['port'] all succeed
ConfigLoads(cfg) ==
    /\ cfg.exists
    /\ cfg.wellFormed
    /\ "OrderService" \in DOMAIN cfg.json
    /\ {"ip", "port"} \subseteq DOMAIN cfg.json["OrderService"]

\* self.order_service_url
OrderServiceUrl(cfg) ==
    "http://" \o cfg.json["OrderService"]["ip"] \o ":" \o cfg.json["OrderService"]["port"]

\* len(sys.argv) of an invocation
ArgvLengths == {2, 3, 4}

\* `if len(sys.argv) != 3`
UsageError(argc) == argc # 3

\* raw lines of the workload files of the driver specification
DriverRawLines ==
    { "\n",
      "# seed data\n",
      "// note\n",
      "restart\n",
      "  shutdown \n",
      "shutdown now\n",
      "user get 1\n",
      "order place 10 x\n",
      "user create 1\n" }

\* raw lines of the workload files of the dispatcher specification
DispatchRawLines ==
    { "\n",
      "# seed data\n",
      "restart\n",
      "shutdown\n",
      "FOO bar baz\n",
      "user\n",
      "user frob 1\n",
      "order get 1\n",
      "product\n",
      "user create 1 alice a@x.com pw\n",
      "USER CREATE 1 alice a@x.com pw\n",
      "User Create 1 Alice a@x.com pw\n",
      "user create one alice a@x.com pw\n",
      "user create 1 alice\n",
      "user get 1\n",
      "user get\n",
      "user update 7 email:new@x.com status:active\n",
      "user update 7\n",
      "user update 7 status\n",
      "user update 7 id:9\n",
      "user delete 1 alice a@x.com pw\n",
      "user delete 1\n",
      "product create 2 pen blue 9.50 3\n",
      "product create 2 pen blue cheap 3\n",
      "product create 2 pen blue 9.50\n",
      "product info 5\n",
      "PRODUCT UPDATE 2 price:10\n",
      "product delete 2 pen 9.5 3\n",
      "product delete 2 pen 9.5 x\n",
      "order place 10 20 3\n",
      "order place 10 20\n",
      "order place 10 2.5 3\n" }

\* raw lines of the workload files of the fault specification
FaultRawLines ==
    { "# seed data\n",
      "restart\n",
      "shutdown\n",
      "user get 1\n" }

\* raw lines of the workload files of the keyword-case specification: the
\* control keywords and service lines in several letter cases
CaseRawLines ==
    { "# seed data\n",
      "restart\n",
      "shutdown\n",
      "SHUTDOWN\n",
      "Restart\n",
      "shutdown now\n",
      "user create 1 alice a@x.com pw\n",
      "USER CREATE 1 alice a@x.com pw\n",
      "User Create 1 Alice a@x.com pw\n",
      "product info Ab\n",
      "pRoDuCt InFo Ab\n" }

\* every stripped line a workload of the model can hold
WorkloadLines ==
    {Strip(l) : l \in DriverRawLines \cup DispatchRawLines \cup FaultRawLines
                       \cup CaseRawLines}

\* the sequences of at most n lines drawn from the set of lines ls
RECURSIVE FilesUpTo(_, _)
FilesUpTo(ls, n) ==
    IF n = 0 THEN {<< >>}
    ELSE LET shorter == FilesUpTo(ls, n - 1)
         IN  shorter \cup {Append(w, l) : w \in {v \in shorter : Len(v) = n - 1}, l \in ls}

DriverWorkloads == FilesUpTo(DriverRawLines, MaxLines)

DispatchWorkloads == FilesUpTo(DispatchRawLines, MaxDispatchLines)

FaultWorkloads == FilesUpTo(FaultRawLines, MaxLines)

CaseWorkloads == FilesUpTo(CaseRawLines, MaxCaseLines)

RunWorkloads == FilesUpTo(FaultRawLines, MaxRunLines)

\* `lines = [line.strip() for line in f.readlines()]`
ReadLines(raw) == [i \in 1..Len(raw) |-> Strip(raw[i])]

\* what requests.post / requests.get can return
Responses ==
    { [status |-> 200, text |-> "{\"id\":1}"],
      [status |-> 201, text |-> "{\"id\":1}"],
      [status |-> 404, text |-> "{}"] }

\* the database files the first run can find
AllFilesystems == [DbFileSet -> FileStates]

FilesystemSamples ==
    { [f \in DbFileSet |-> "nodir"],
      [f \in DbFileSet |-> IF f = DbFiles[1] THEN "populated"
                            ELSE IF f = DbFiles[2] THEN "empty" ELSE "absent"] }

(***************************************************************************)
(* State.                                                                  *)
(***************************************************************************)
VARIABLES
    pc,           \* "idle", "policy", "loop", "http", "done", "fatal"
    fatal,        \* why the invocation ended early: "none", "usage",
                  \* "ConfigError", "IOError", "Exception"
    baseUrl,      \* self.order_service_url
    lines,        \* lines of parse_workload (stripped)
    idx,          \* position of the `for line in lines` loop (1-based)
    flag,         \* os.path.exists("restart_flag.txt")
    fs,           \* database file path -> FileStates
    flagAtStart,  \* history: flag when the invocation began
    fsAtStart,    \* history: fs when the invocation began
    resetCalls,   \* history: calls of reset_databases in this invocation
    requests,     \* history: HTTP requests of this invocation, in order
    responses,    \* history: how each completed request ended
    reported,     \* history: outcome lines written by the handlers
    prev          \* history: how the previous invocation ended, when observed

vars == << pc, fatal, baseUrl, lines, idx, flag, fs, flagAtStart,
           fsAtStart, resetCalls, requests, responses, reported, prev >>

history == << flagAtStart, fsAtStart, resetCalls, requests, responses, reported,
              prev >>

\* no previous invocation has been observed
NoPrevious == [ended |-> "none", shutdown |-> FALSE]

Init ==
    /\ pc = "idle"
    /\ fatal = "none"
    /\ baseUrl = ""
    /\ lines = << >>
    /\ idx = 0
    /\ flag \in BOOLEAN
    /\ fs \in FilesystemSamples
    /\ flagAtStart = flag
    /\ fsAtStart = fs
    /\ resetCalls = 0
    /\ requests = << >>
    /\ responses = << >>
    /\ reported = << >>
    /\ prev = NoPrevious

\* main() can be invoked: no invocation is in progress
CanInvoke == pc = "idle"

\* main() with the wrong number of arguments: usage message, sys.exit(1)
MainUsage(argc) ==
    /\ CanInvoke
    /\ UsageError(argc)
    /\ pc' = "fatal"
    /\ fatal' = "usage"
    /\ UNCHANGED << baseUrl, lines, idx, flag, fs, history >>

\* mutant: the flag file is created before the configuration is read
MainConfigErrorAfterFlag(cfg) ==
    /\ CanInvoke
    /\ ~ConfigLoads(cfg)
    /\ flag' = TRUE
    /\ pc' = "fatal"
    /\ fatal' = "ConfigError"
    /\ UNCHANGED << baseUrl, lines, idx, fs, history >>

\* main(): WorkloadParser(config_file) raises
MainConfigError(cfg) ==
    /\ CanInvoke
    /\ ~ConfigLoads(cfg)
    /\ pc' = "fatal"
    /\ fatal' = "ConfigError"
    /\ UNCHANGED << baseUrl, lines, idx, flag, fs, history >>

\* main(): the parser is constructed and parse_workload reads the lines
MainRun(cfg, raw) ==
    /\ CanInvoke
    /\ ConfigLoads(cfg)
    /\ pc' = "policy"
    /\ baseUrl' = OrderServiceUrl(cfg)
    /\ lines' = ReadLines(raw)
    /\ UNCHANGED << fatal, idx, flag, fs, history >>

\* the process of an invocation is gone: what it held in memory is lost, the
\* flag file and the database files stay
Exit ==
    /\ pc \in {"done", "fatal"}
    /\ pc' = "idle"
    /\ fatal' = "none"
    /\ baseUrl' = ""
    /\ lines' = << >>
    /\ idx' = 0
    /\ flagAtStart' = flag
    /\ fsAtStart' = fs
    /\ resetCalls' = 0
    /\ requests' = << >>
    /\ responses' = << >>
    /\ reported' = << >>
    /\ UNCHANGED << flag, fs, prev >>

\* the same end of an invocation, with a note of how it ended for the next
\* one: whether main returned ("done") or why the invocation was fatal, and
\* whether its loop went through a `shutdown` line
ExitObserved ==
    /\ pc \in {"done", "fatal"}
    /\ prev' = [ended |-> IF pc = "done" THEN "done" ELSE fatal,
                shutdown |-> pc = "done" /\ \E i \in 1..Len(lines) : IsShutdown(lines[i])]
    /\ pc' = "idle"
    /\ fatal' = "none"
    /\ baseUrl' = ""
    /\ lines' = << >>
    /\ idx' = 0
    /\ flagAtStart' = flag
    /\ fsAtStart' = fs
    /\ resetCalls' = 0
    /\ requests' = << >>
    /\ responses' = << >>
    /\ reported' = << >>
    /\ UNCHANGED << flag, fs >>

\* parse_workload, from the scan for the first real command to the creation
\* of the flag file
Policy ==
    /\ pc = "policy"
    /\ IF ShouldReset(flag, lines)
       THEN /\ fs' = ResetDatabases(fs)
            /\ resetCalls' = resetCalls + 1
       ELSE UNCHANGED << fs, resetCalls >>
    /\ flag' = FlagAfterPolicy(flag)
    /\ pc' = "loop"
    /\ idx' = 1
    /\ UNCHANGED << fatal, baseUrl, lines, prev, flagAtStart, fsAtStart,
                    requests, responses, reported >>

\* mutant: the flag file is created before the reset action is invoked
PolicyResetFailsAfterFlag(k) ==
    /\ pc = "policy"
    /\ ShouldReset(flag, lines)
    /\ ResetOpCanFail(fs, k)
    /\ fs' = ResetPrefix(fs, k - 1)
    /\ flag' = TRUE
    /\ resetCalls' = resetCalls + 1
    /\ pc' = "fatal"
    /\ fatal' = "IOError"
    /\ UNCHANGED << baseUrl, lines, idx, prev, flagAtStart, fsAtStart,
                    requests, responses, reported >>

\* parse_workload: reset_databases raises at its k-th file operation; the
\* IOError is not caught and ends the invocation
PolicyResetFails(k) ==
    /\ pc = "policy"
    /\ ShouldReset(flag, lines)
    /\ ResetOpCanFail(fs, k)
    /\ fs' = ResetPrefix(fs, k - 1)
    /\ resetCalls' = resetCalls + 1
    /\ pc' = "fatal"
    /\ fatal' = "IOError"
    /\ UNCHANGED << baseUrl, lines, idx, flag, prev, flagAtStart, fsAtStart,
                    requests, responses, reported >>

AtLine == pc = "loop" /\ idx <= Len(lines)

\* the loop body on a blank or comment line: continue
SkipLine ==
    /\ AtLine
    /\ IsSkipped(lines[idx])
    /\ idx' = idx + 1
    /\ UNCHANGED << pc, fatal, baseUrl, lines, flag, fs, history >>

\* mutant: the shutdown branch leaves the loop (break instead of continue)
ShutdownLineEndsLoop ==
    /\ AtLine
    /\ ~IsSkipped(lines[idx])
    /\ IsShutdown(lines[idx])
    /\ flag' = FlagAfterShutdown(flag)
    /\ pc' = "done"
    /\ UNCHANGED << fatal, baseUrl, lines, idx, fs, history >>

\* the loop body on a `shutdown` line
ShutdownLine ==
    /\ AtLine
    /\ ~IsSkipped(lines[idx])
    /\ IsShutdown(lines[idx])
    /\ flag' = FlagAfterShutdown(flag)
    /\ idx' = idx + 1
    /\ UNCHANGED << pc, fatal, baseUrl, lines, fs, history >>

\* mutant: the restart branch marks the environment as started again
RestartLineRecreatesFlag ==
    /\ AtLine
    /\ ~IsSkipped(lines[idx])
    /\ ~IsShutdown(lines[idx])
    /\ IsRestart(lines[idx])
    /\ flag' = TRUE
    /\ idx' = idx + 1
    /\ UNCHANGED << pc, fatal, baseUrl, lines, fs, history >>

\* the loop body on a `restart` line
RestartLine ==
    /\ AtLine
    /\ ~IsSkipped(lines[idx])
    /\ ~IsShutdown(lines[idx])
    /\ IsRestart(lines[idx])
    /\ idx' = idx + 1
    /\ UNCHANGED << pc, fatal, baseUrl, lines, flag, fs, history >>

\* the request record kept in the history
RequestOf(i, r) ==
    [line |-> i, method |-> r.method, url |-> r.url, headers |-> r.headers,
     payload |-> r.payload, onExcept |-> r.onExcept]

\* the loop body on any other line: process_command(line), up to the point
\* where the handler returns or blocks in its HTTP call; an exception that
\* leaves process_command is caught nowhere and ends the invocation
DispatchLine ==
    /\ AtLine
    /\ ~IsSkipped(lines[idx])
    /\ ~IsShutdown(lines[idx])
    /\ ~IsRestart(lines[idx])
    /\ \E r \in {ProcessCommand(baseUrl, lines[idx])} :
           CASE r.kind = "none" ->
                    /\ idx' = idx + 1
                    /\ UNCHANGED << pc, fatal, requests, reported >>
             [] r.kind = "raise" ->
                    /\ reported' = Append(reported, [line |-> idx, text |-> r.onExcept])
                    /\ idx' = idx + 1
                    /\ UNCHANGED << pc, fatal, requests >>
             [] r.kind = "send" ->
                    /\ requests' = Append(requests, RequestOf(idx, r))
                    /\ pc' = "http"
                    /\ UNCHANGED << fatal, idx, reported >>
             [] r.kind = "escape" ->
                    /\ pc' = "fatal"
                    /\ fatal' = "Exception"
                    /\ UNCHANGED << idx, requests, reported >>
    /\ UNCHANGED << baseUrl, lines, flag, fs, prev, flagAtStart, fsAtStart,
                    resetCalls, responses >>

\* the HTTP call of the handler returns a response; the handler reports it
HttpReturns(resp) ==
    /\ pc = "http"
    /\ responses' = Append(responses,
           [line |-> idx, raised |-> FALSE, status |-> resp.status, text |-> resp.text])
    /\ reported' = Append(reported,
           [line |-> idx, text |-> ReportResponse(resp.status, resp.text)])
    /\ pc' = "loop"
    /\ idx' = idx + 1
    /\ UNCHANGED << fatal, baseUrl, lines, flag, fs, prev, flagAtStart,
                    fsAtStart, resetCalls, requests >>

\* mutant: a request that raised is sent once more
HttpRaisesRetry ==
    /\ pc = "http"
    /\ requests' = Append(requests, requests[Len(requests)])
    /\ responses' = Append(responses,
           [line |-> idx, raised |-> TRUE, status |-> 0, text |-> ""])
    /\ UNCHANGED << pc, fatal, baseUrl, lines, idx, flag, fs, prev, flagAtStart,
                    fsAtStart, resetCalls, reported >>

\* the HTTP call of the handler raises; the except clause of the handler
\* reports it
HttpRaises ==
    /\ pc = "http"
    /\ responses' = Append(responses,
           [line |-> idx, raised |-> TRUE, status |-> 0, text |-> ""])
    /\ reported' = Append(reported,
           [line |-> idx, text |-> requests[Len(requests)].onExcept])
    /\ pc' = "loop"
    /\ idx' = idx + 1
    /\ UNCHANGED << fatal, baseUrl, lines, flag, fs, prev, flagAtStart,
                    fsAtStart, resetCalls, requests >>

\* mutant: the reset action postponed to the end of the loop
ReturnResetsLate ==
    /\ pc = "loop"
    /\ idx > Len(lines)
    /\ pc' = "done"
    /\ fs' = ResetDatabases(fs)
    /\ resetCalls' = resetCalls + 1
    /\ UNCHANGED << fatal, baseUrl, lines, idx, flag, prev, flagAtStart, fsAtStart,
                    requests, responses, reported >>

\* the loop is exhausted: parse_workload and main return
Return ==
    /\ pc = "loop"
    /\ idx > Len(lines)
    /\ pc' = "done"
    /\ UNCHANGED << fatal, baseUrl, lines, idx, flag, fs, history >>

\* the steps of an invocation once its lines are read, on a filesystem whose
\* operations succeed
RunSteps ==
    \/ Policy
    \/ SkipLine
    \/ ShutdownLine
    \/ RestartLine
    \/ DispatchLine
    \/ \E resp \in Responses : HttpReturns(resp)
    \/ HttpRaises
    \/ Return

MainSteps ==
    \/ \E argc \in ArgvLengths : MainUsage(argc)
    \/ \E cfg \in ConfigSamples : MainConfigError(cfg)
    \/ Exit

\* the driver: workloads of up to MaxLines lines, no I/O error
Next ==
    \/ MainSteps
    \/ (CanInvoke /\ \E cfg \in ConfigSamples, raw \in DriverWorkloads : MainRun(cfg, raw))
    \/ RunSteps

Spec == Init /\ [][Next]_vars

\* the dispatcher: workloads of up to MaxDispatchLines lines, every row of the
\* dispatch table and its failure cases
NextDispatch ==
    \/ MainSteps
    \/ (CanInvoke /\ \E cfg \in ConfigSamples, raw \in DispatchWorkloads : MainRun(cfg, raw))
    \/ RunSteps

SpecDispatch == Init /\ [][NextDispatch]_vars

\* the driver on a filesystem whose operations can fail during the reset
\* action: workloads of up to MaxLines lines over the control commands
NextFaults ==
    \/ MainSteps
    \/ (CanInvoke /\ \E cfg \in ConfigSamples, raw \in FaultWorkloads : MainRun(cfg, raw))
    \/ RunSteps
    \/ \E k \in 1..(2 * Len(DbFiles)) : PolicyResetFails(k)

SpecFaults == Init /\ [][NextFaults]_vars

\* the driver on workloads of up to MaxCaseLines lines that spell the control
\* keywords, the services and the actions in several letter cases
NextCase ==
    \/ MainSteps
    \/ (CanInvoke /\ \E cfg \in ConfigSamples, raw \in CaseWorkloads : MainRun(cfg, raw))
    \/ RunSteps

SpecCase == Init /\ [][NextCase]_vars

\* consecutive invocations on one filesystem, each observed by the next:
\* workloads of up to MaxRunLines lines over the control commands, with
\* malformed invocations, configuration failures and reset failures
NextRuns ==
    \/ \E argc \in ArgvLengths : MainUsage(argc)
    \/ \E cfg \in ConfigSamples : MainConfigError(cfg)
    \/ ExitObserved
    \/ (CanInvoke /\ \E cfg \in ConfigSamples, raw \in RunWorkloads : MainRun(cfg, raw))
    \/ RunSteps
    \/ \E k \in 1..(2 * Len(DbFiles)) : PolicyResetFails(k)

SpecRuns == Init /\ [][NextRuns]_vars

\* the reset action on its own: reset_databases() called MaxResetCalls times
\* in a row on every filesystem
InitReset ==
    /\ pc = "idle"
    /\ fatal = "none"
    /\ baseUrl = ""
    /\ lines = << >>
    /\ idx = 0
    /\ flag \in BOOLEAN
    /\ fs \in AllFilesystems
    /\ flagAtStart = flag
    /\ fsAtStart = fs
    /\ resetCalls = 0
    /\ requests = << >>
    /\ responses = << >>
    /\ reported = << >>
    /\ prev = NoPrevious

CallResetDatabases ==
    /\ pc = "idle"
    /\ resetCalls < MaxResetCalls
    /\ fs' = ResetDatabases(fs)
    /\ resetCalls' = resetCalls + 1
    /\ UNCHANGED << pc, fatal, baseUrl, lines, idx, flag, prev, flagAtStart,
                    fsAtStart, requests, responses, reported >>

NextReset == CallResetDatabases

SpecReset == InitReset /\ [][NextReset]_vars

(***************************************************************************)
(* Properties.  The predicates below restate what the specification says   *)
(* about a workload; they are written from the lines of the workload and   *)
(* the dispatch table, not from the operators that model the driver.       *)
(***************************************************************************)
\* the first n characters of s (all of s when it is shorter)
Prefix(s, n) == SubSeq(s, 1, IF Len(s) < n THEN Len(s) ELSE n)

\* line i of the workload is blank or a comment
BlankOrComment(i) ==
    \/ lines[i] = ""
    \/ Prefix(lines[i], 1) = "#"
    \/ Prefix(lines[i], 2) = "//"

RealLine(i) == ~BlankOrComment(i)

\* line i is the first real line of the workload
FirstReal(i) ==
    /\ i \in 1..Len(lines)
    /\ RealLine(i)
    /\ \A j \in 1..(i - 1) : BlankOrComment(j)

FirstRealLineIsRestart == \E i \in 1..Len(lines) : FirstReal(i) /\ lines[i] = "restart"

\* the reset/flag policy step of the invocation is over
PolicyOver == pc \in {"loop", "http", "done"} \/ (pc = "fatal" /\ fatal = "IOError")

\* the lines the loop has finished with
Processed == IF pc \in {"loop", "http", "done"} THEN 1..(idx - 1) ELSE {}

\* C1: one run of parse_workload invokes the reset action if and only if the
\* flag file is absent when the run starts and the first non-blank,
\* non-comment stripped line is not exactly "restart" (a workload without a
\* real line counts as not-restart); the reset action is invoked at most once
\* per run, and not before the policy step.
ResetIffFlagAbsentAndNotRestart ==
    /\ resetCalls <= 1
    /\ pc \in {"idle", "policy"} => resetCalls = 0
    /\ PolicyOver => (resetCalls = 1 <=> (~flagAtStart /\ ~FirstRealLineIsRestart))

\* a flag-absent run whose first real line follows a comment and is a service
\* line, with a later `restart` line, has reset once
ResetRanDespiteLaterRestart ==
    /\ pc = "done"
    /\ ~flagAtStart
    /\ resetCalls = 1
    /\ Len(lines) = 3
    /\ BlankOrComment(1)
    /\ lines[2] = "user get 1"
    /\ lines[3] = "restart"

\* line i is the last real line of the workload
LastReal(i) ==
    /\ i \in 1..Len(lines)
    /\ RealLine(i)
    /\ \A j \in (i + 1)..Len(lines) : BlankOrComment(j)

LastRealLineIsShutdown == \E i \in 1..Len(lines) : LastReal(i) /\ lines[i] = "shutdown"

\* C2, as stated: the flag file exists at the end of any run whose last
\* processed (non-blank, non-comment) line is not a `shutdown` line.
FlagExistsUnlessLastLineShutdown ==
    (pc = "done" /\ ~LastRealLineIsShutdown) => flag

\* C2, amended: the flag file exists at the end of any run that processed no
\* `shutdown` line at all.
FlagExistsIfNoShutdownLine ==
    (pc = "done" /\ \A i \in 1..Len(lines) : lines[i] # "shutdown") => flag

\* a flag-absent run without a shutdown line, ending on a near-keyword line,
\* has finished with the flag created
FlagCreatedAndKept ==
    /\ pc = "done"
    /\ ~flagAtStart
    /\ flag
    /\ Len(lines) = 2
    /\ lines[1] = "restart"
    /\ lines[2] = "shutdown now"

\* the step of the loop that finishes with line i
FinishesLine(i) ==
    /\ pc \in {"loop", "http"}
    /\ idx = i
    /\ i \in 1..Len(lines)
    /\ pc' \in {"loop", "fatal"}
    /\ (pc' = "loop" => idx' = i + 1)

\* C3: processing a `shutdown` line leaves the flag file absent immediately
\* afterwards, whatever its position and whatever the flag state before it;
\* a run over the workload [shutdown] that began with the flag present ends
\* with the flag absent.
ShutdownLeavesFlagAbsent ==
    /\ [][\A i \in 1..Len(lines) :
            (FinishesLine(i) /\ lines[i] = "shutdown") => ~flag']_vars
    /\ []((pc = "done" /\ lines = << "shutdown" >>) => ~flag)

\* a shutdown line in second position, after a request, has just removed the
\* flag that was present at the start
ShutdownInSecondPosition ==
    /\ pc = "loop"
    /\ idx = 3
    /\ lines[1] = "user get 1"
    /\ lines[2] = "shutdown"
    /\ flagAtStart
    /\ ~flag

\* C4: at every point of a run after the policy step the flag file is present
\* if and only if no `shutdown` line has been processed so far in that run
\* (so no later line recreates a flag that a shutdown line removed).
FlagPresentIffNoShutdownSoFar ==
    pc \in {"loop", "http", "done"} =>
        (flag <=> \A i \in Processed : lines[i] # "shutdown")

\* a run has finished a restart line and a service line after its shutdown
\* line, and the flag is still absent
FlagStaysAbsentAfterShutdown ==
    /\ pc = "done"
    /\ Len(lines) = 3
    /\ lines[1] = "shutdown"
    /\ lines[2] = "restart"
    /\ lines[3] = "user get 1"
    /\ Len(requests) = 1
    /\ ~flag

\* C5: if the flag file is absent when a run starts, the policy step creates
\* it whether or not the reset action ran, so the flag is present when the
\* first workload line is processed.
FlagCreatedByPolicy ==
    (~flagAtStart /\ pc = "loop" /\ idx = 1) => flag

\* a flag-absent run whose first line is `restart` is about to process it:
\* no reset ran and the flag exists
FlagCreatedWithoutReset ==
    /\ ~flagAtStart
    /\ pc = "loop"
    /\ idx = 1
    /\ Len(lines) >= 1
    /\ lines[1] = "restart"
    /\ resetCalls = 0
    /\ flag

AllEmpty(fsys) == \A f \in DbFileSet : fsys[f] = "empty"

\* C6: the reset action is total and idempotent: whatever the three database
\* files were (absent with or without their directory, empty, populated),
\* every call of reset_databases ends with all three files existing and
\* empty, and a call made right after another one ends in the same state.
ResetTotalAndIdempotent ==
    [][resetCalls' = resetCalls + 1 =>
          /\ AllEmpty(fs')
          /\ (resetCalls >= 1 => fs' = fs)]_vars

\* reset_databases has been called twice in a row on a filesystem that had a
\* populated file, an empty file and a file whose directory was missing
ResetTwiceOnMixedFiles ==
    /\ resetCalls = 2
    /\ fsAtStart[DbFiles[1]] = "populated"
    /\ fsAtStart[DbFiles[2]] = "nodir"
    /\ fsAtStart[DbFiles[3]] = "empty"
    /\ AllEmpty(fs)

(***************************************************************************)
(* The dispatch table of the specification (section 4.4) and what it says  *)
(* of a workload line.                                                     *)
(***************************************************************************)
\* rows: service, action, HTTP method, path and the types of the positional
\* arguments; keyValues: the remaining arguments are key:value pairs
DispatchTable ==
    { [service |-> "USER", action |-> "create", method |-> "POST", path |-> "/user",
       args |-> << "int", "str", "str", "str" >>, keyValues |-> FALSE],
      [service |-> "USER", action |-> "get", method |-> "GET", path |-> "/user",
       args |-> << "str" >>, keyValues |-> FALSE],
      [service |-> "USER", action |-> "update", method |-> "POST", path |-> "/user",
       args |-> << "int" >>, keyValues |-> TRUE],
      [service |-> "USER", action |-> "delete", method |-> "POST", path |-> "/user",
       args |-> << "int", "str", "str", "str" >>, keyValues |-> FALSE],
      [service |-> "PRODUCT", action |-> "create", method |-> "POST", path |-> "/product",
       args |-> << "int", "str", "str", "float", "int" >>, keyValues |-> FALSE],
      [service |-> "PRODUCT", action |-> "info", method |-> "GET", path |-> "/product",
       args |-> << "str" >>, keyValues |-> FALSE],
      [service |-> "PRODUCT", action |-> "update", method |-> "POST", path |-> "/product",
       args |-> << "int" >>, keyValues |-> TRUE],
      [service |-> "PRODUCT", action |-> "delete", method |-> "POST", path |-> "/product",
       args |-> << "int", "str", "float", "int" >>, keyValues |-> FALSE],
      [service |-> "ORDER", action |-> "place", method |-> "POST", path |-> "/order",
       args |-> << "int", "int", "int" >>, keyValues |-> FALSE] }

\* line i goes to the dispatcher: it is real and not a control command
ServiceLine(i) == RealLine(i) /\ lines[i] \notin {"shutdown", "restart"}

\* what the table says of a line with service word sv, action word ac and
\* argument words ar: the rows it names (one at most)
TableFacts(sv, ac, ar) ==
    [service |-> sv, action |-> ac, args |-> ar,
     rows |-> {row \in DispatchTable : row.service = sv /\ row.action = ac}]

WordFacts(w) ==
    IF Len(w) = 0 THEN TableFacts("", "", << >>)
    ELSE TableFacts(Upper(w[1]),
                    IF Len(w) > 1 THEN Lower(w[2]) ELSE "",
                    SubSeq(w, 3, Len(w)))

\* the facts of line i: its words are its maximal runs of non-blank
\* characters, the service word is read in upper case, the action word in
\* lower case
LineFacts == [l \in WorkloadLines |-> WordFacts(Split(l))]

Facts(i) == LineFacts[lines[i]]

\* line i, with facts f, names a (service, action) pair of the table
Tabled(i, f) == ServiceLine(i) /\ f.rows # {}

RowOf(f) == CHOOSE row \in f.rows : TRUE

\* text a is acceptable for an argument of type ty
Coerces(ty, a) ==
    CASE ty = "int" -> IsIntText(a)
      [] ty = "float" -> IsFloatText(a)
      [] OTHER -> TRUE

TooFewArgs(i, f) == Tabled(i, f) /\ Len(f.args) < Len(RowOf(f).args)

CoercionFails(i, f) ==
    /\ Tabled(i, f)
    /\ \E row \in {RowOf(f)} :
          \E k \in 1..Len(row.args) :
              k <= Len(f.args) /\ ~Coerces(row.args[k], f.args[k])

\* an argument of an update line after the id has no ":"
KeyValueFails(i, f) ==
    /\ Tabled(i, f)
    /\ RowOf(f).keyValues
    /\ \E k \in 2..Len(f.args) :
          \A c \in 1..Len(f.args[k]) : SubSeq(f.args[k], c, c) # ":"

\* the arguments of line i let the handler build its request
WellFormed(i, f) ==
    Tabled(i, f) /\ ~TooFewArgs(i, f) /\ ~CoercionFails(i, f) /\ ~KeyValueFails(i, f)

RequestsOf(i) == {k \in 1..Len(requests) : requests[k].line = i}

ResponsesOf(i) == {k \in 1..Len(responses) : responses[k].line = i}

ReportsOf(i) == {k \in 1..Len(reported) : reported[k].line = i}

ReportedFailed(i) ==
    /\ Cardinality(ReportsOf(i)) = 1
    /\ \A k \in ReportsOf(i) : Prefix(reported[k].text, 7) = "Failed:"

\* C7: each workload line is attempted exactly once and in file order: the
\* requests of a run are in strictly increasing line order (at most one per
\* line, none repeated), every processed line whose command is well formed
\* has exactly one request, and a request has completed (response or
\* exception) before the loop moves to the next line, so at most the
\* request of the current line is in flight.
RequestsOncePerLineInOrder ==
    /\ \A j, k \in 1..Len(requests) : j < k => requests[j].line < requests[k].line
    /\ \A k \in 1..Len(requests) :
          /\ requests[k].line \in 1..Len(lines)
          /\ ServiceLine(requests[k].line)
          /\ requests[k].line <= idx
          /\ requests[k].line = idx => (pc = "http" /\ k = Len(requests))
    /\ Len(responses) = Len(requests) - (IF pc = "http" THEN 1 ELSE 0)
    /\ \A k \in 1..Len(responses) : responses[k].line = requests[k].line
    /\ \A i \in Processed : \A f \in {Facts(i)} :
          WellFormed(i, f) => Cardinality(RequestsOf(i)) = 1

\* a run of three request lines has ended: the first request raised, the
\* second got a 404, none was repeated and the third was still sent
ThreeRequestsNoRetry ==
    /\ pc = "done"
    /\ Len(lines) = 3
    /\ Len(requests) = 3
    /\ responses[1].raised
    /\ responses[2].status = 404
    /\ responses[3].status = 200

\* C8: a single bad command never aborts the run: the only fatal ends of an
\* invocation come before the first line is processed (no exception leaves
\* the dispatcher); every processed service line with too few arguments or
\* an argument that fails int/float coercion sent no request and is reported
\* as Failed once; every request that raised or was answered with a status
\* other than 200 is reported as Failed once; and at the end of the run every
\* line has been processed, each tabled line with exactly one outcome.
BadCommandNeverAborts ==
    /\ pc = "fatal" => (fatal \in {"usage", "ConfigError", "IOError"} /\ idx = 0)
    /\ \A i \in Processed : \A f \in {Facts(i)} :
          (TooFewArgs(i, f) \/ CoercionFails(i, f)) =>
              (RequestsOf(i) = {} /\ ReportedFailed(i))
    /\ \A k \in 1..Len(responses) :
          (responses[k].raised \/ responses[k].status # 200) =>
              ReportedFailed(responses[k].line)
    /\ pc = "done" =>
          /\ idx = Len(lines) + 1
          /\ \A i \in 1..Len(lines) : \A f \in {Facts(i)} :
                Tabled(i, f) => Cardinality(ReportsOf(i)) = 1

\* a run has ended whose first line failed coercion, whose second line had
\* too few arguments and whose third line was still sent and answered
LaterLineProcessedAfterBadOnes ==
    /\ pc = "done"
    /\ Len(lines) = 3
    /\ CoercionFails(1, Facts(1))
    /\ TooFewArgs(2, Facts(2))
    /\ lines[3] = "user get 1"
    /\ Len(reported) = 3
    /\ Len(requests) = 1
    /\ responses[1].status = 200

\* C9: a line handed to the dispatcher whose first token is not USER, PRODUCT
\* or ORDER, or whose action (possibly missing) is not in the table for its
\* service, produces no request, no outcome and no error, leaves the flag
\* and the database files unchanged, and the loop moves on to the next line.
IgnoredLineIsNoOp ==
    [][\A i \in 1..Len(lines) :
          (pc = "loop" /\ idx = i /\ ServiceLine(i) /\ ~Tabled(i, Facts(i))) =>
              /\ pc' = "loop"
              /\ idx' = i + 1
              /\ UNCHANGED << fatal, flag, fs, requests, responses, reported >>]_vars

\* a run over a line with an unknown action of a known service has ended
\* without a request or an outcome
UnknownActionIgnored ==
    /\ pc = "done"
    /\ lines = << "user frob 1" >>
    /\ requests = << >>
    /\ reported = << >>
    /\ fatal = "none"

\* the outcome the specification gives a line with facts f, from how its
\* request ended
ExpectedReport(i, f) ==
    IF \E k \in ResponsesOf(i) : ~responses[k].raised
    THEN LET r == responses[CHOOSE k \in ResponsesOf(i) : TRUE]
         IN  IF r.status = 200 THEN "Successful:  " \o r.text
             ELSE "Failed:  " \o r.text
    ELSE IF f.service = "ORDER" /\ f.action = "place"
         THEN "Failed: {\"status\":\"Invalid Request\"}"
    ELSE "Failed:  {}"

\* C10: every dispatched command reports exactly one outcome; it is
\* `Successful` with the response body if and only if a request was sent and
\* answered with status 200, `Failed` with the response body for any other
\* status, and for any exception `Failed` with the placeholder {} or, for
\* ORDER place, with the body {"status":"Invalid Request"}; lines that are
\* not dispatched report nothing.
OutcomeMatchesStatus ==
    \A i \in Processed : \A f \in {Facts(i)} :
        IF Tabled(i, f)
        THEN /\ Cardinality(ReportsOf(i)) = 1
             /\ \A k \in ReportsOf(i) :
                   /\ reported[k].text = ExpectedReport(i, f)
                   /\ Prefix(reported[k].text, 11) = "Successful:" <=>
                         \E j \in ResponsesOf(i) :
                             ~responses[j].raised /\ responses[j].status = 200
        ELSE ReportsOf(i) = {}

\* an ORDER place request answered 201 was reported as Failed with the body
NonOkStatusReportedFailed ==
    /\ pc = "done"
    /\ lines = << "order place 10 20 3" >>
    /\ Len(responses) = 1
    /\ responses[1].status = 201
    /\ reported = << [line |-> 1, text |-> "Failed:  {\"id\":1}"] >>

(***************************************************************************)
(* The update payload (section 4.4, rows USER update and PRODUCT update).   *)
(***************************************************************************)
\* position of the first ":" of argument a, 0 when it has none
ColonAt(a) ==
    IF \E c \in 1..Len(a) : SubSeq(a, c, c) = ":"
    THEN CHOOSE c \in 1..Len(a) :
            /\ SubSeq(a, c, c) = ":"
            /\ \A d \in 1..(c - 1) : SubSeq(a, d, d) # ":"
    ELSE 0

\* key = the text before the first colon, value = the rest
KeyOf(a) == SubSeq(a, 1, ColonAt(a) - 1)

ValueOf(a) == SubSeq(a, ColonAt(a) + 1, Len(a))

\* line i, with facts f, is a USER update or PRODUCT update line
UpdateLine(i, f) == Tabled(i, f) /\ f.action = "update"

\* C11: every request sent for a USER update or PRODUCT update line carries
\* a payload whose command field is "update", whose id field is the integer
\* value of the first argument, and which holds one field per remaining
\* key:value argument, the key being the text before the first colon and the
\* value the rest, as a string.
UpdatePayloadCarriesIdAndFields ==
    \A k \in 1..Len(requests) : \A f \in {Facts(requests[k].line)} :
        UpdateLine(requests[k].line, f) =>
            /\ "command" \in DOMAIN requests[k].payload
            /\ requests[k].payload["command"] = "\"update\""
            /\ "id" \in DOMAIN requests[k].payload
            /\ requests[k].payload["id"] = IntJson(IntOf(f.args[1]))
            /\ \A a \in 2..Len(f.args) :
                  /\ KeyOf(f.args[a]) \in DOMAIN requests[k].payload
                  /\ requests[k].payload[KeyOf(f.args[a])] =
                        "\"" \o ValueOf(f.args[a]) \o "\""

\* the URL the table gives a line with facts f: the base URL and the path of
\* its service, followed by /<id> for the lookups
TabledUrl(f) ==
    LET row == RowOf(f)
    IN  IF row.method = "GET" THEN baseUrl \o row.path \o "/" \o f.args[1]
        ELSE baseUrl \o row.path

\* the path of each service
ServicePaths == [s \in {"USER", "PRODUCT", "ORDER"} |->
                    IF s = "USER" THEN "/user"
                    ELSE IF s = "PRODUCT" THEN "/product" ELSE "/order"]

\* C12: the dispatcher maps each (service, action) pair of the table to one
\* HTTP call with the tabled method and path: every request of a run comes
\* from a tabled line, has the method of its row and the URL
\* <base_url>/<service_path> (followed by /<id> for USER get and PRODUCT
\* info), so it never goes to the path of another service than the line's
\* first token; and every processed well-formed tabled line made exactly one
\* request.
RequestMatchesDispatchTable ==
    /\ \A k \in 1..Len(requests) : \A f \in {Facts(requests[k].line)} :
          /\ Tabled(requests[k].line, f)
          /\ requests[k].method = RowOf(f).method
          /\ requests[k].url = TabledUrl(f)
          /\ Prefix(requests[k].url, Len(baseUrl) + Len(ServicePaths[f.service]))
                = baseUrl \o ServicePaths[f.service]
          /\ \A s \in DOMAIN ServicePaths :
                s # f.service =>
                   Prefix(requests[k].url, Len(baseUrl) + Len(ServicePaths[s]))
                      # baseUrl \o ServicePaths[s]
    /\ \A i \in Processed : \A f \in {Facts(i)} :
          WellFormed(i, f) => Cardinality(RequestsOf(i)) = 1

\* scenario B, second line: a run over [product info 5] has ended after one
\* GET to <base_url>/product/5
ProductInfoSentAsGet ==
    /\ pc = "done"
    /\ lines = << "product info 5" >>
    /\ Len(requests) = 1
    /\ requests[1].method = "GET"
    /\ requests[1].url = "http://127.0.0.1:14000/product/5"
    /\ requests[1].payload = NoPayload

(***************************************************************************)
(* Letter case of the service and action words (section 4.3b).             *)
(***************************************************************************)
\* what was sent for line i, without the position of the line
SentOf(i) ==
    {[method |-> requests[k].method, url |-> requests[k].url,
      headers |-> requests[k].headers, payload |-> requests[k].payload] :
        k \in RequestsOf(i)}

\* two lines with facts f and g differ at most in the letter case of their
\* first two words
SameUpToKeywordCase(f, g) ==
    f.service = g.service /\ f.action = g.action /\ f.args = g.args

\* C13: tokenization is case-insensitive in service and action: two
\* processed lines that differ only in the letter case of their first two
\* words name the same (service, action) pair and so produce identical
\* requests (or none, with the same number of reported outcomes), while the
\* argument words are passed through with their case unchanged: every string
\* argument of a request is the word of the line as written.
KeywordCaseIgnoredArgsKept ==
    /\ \A i, j \in Processed : \A f \in {Facts(i)} : \A g \in {Facts(j)} :
          (ServiceLine(i) /\ ServiceLine(j) /\ SameUpToKeywordCase(f, g)) =>
              /\ SentOf(i) = SentOf(j)
              /\ Cardinality(ReportsOf(i)) = Cardinality(ReportsOf(j))
              /\ Tabled(i, f) <=> Tabled(j, g)
    /\ \A i \in Processed : \A f \in {Facts(i)} :
          WellFormed(i, f) => Cardinality(RequestsOf(i)) = 1
    /\ \A k \in 1..Len(requests) : \A f \in {Facts(requests[k].line)} :
          /\ Tabled(requests[k].line, f)
          /\ \A row \in {RowOf(f)} : \A a \in 1..Len(row.args) :
                row.args[a] = "str" =>
                    IF row.method = "GET"
                    THEN requests[k].url = baseUrl \o row.path \o "/" \o f.args[a]
                    ELSE \E key \in DOMAIN requests[k].payload :
                            requests[k].payload[key] = "\"" \o f.args[a] \o "\""

\* a run over an upper-case and a mixed-case spelling of USER create has
\* ended: both lines were sent to /user as create commands, the second with
\* its capitalised username unchanged
MixedCaseLinesBothSent ==
    /\ pc = "done"
    /\ lines = << "USER CREATE 1 alice a@x.com pw", "User Create 1 Alice a@x.com pw" >>
    /\ Len(requests) = 2
    /\ requests[1].url = requests[2].url
    /\ requests[1].payload["command"] = requests[2].payload["command"]
    /\ requests[1].payload["username"] = "\"alice\""
    /\ requests[2].payload["username"] = "\"Alice\""

(***************************************************************************)
(* The configuration loader (section 4.1) and its failures (section 7).    *)
(***************************************************************************)
\* a configuration the loader accepts: the file is there, it parses, and it
\* has the ip and the port of the order service
UsableConfig(cfg) ==
    /\ cfg.exists
    /\ cfg.wellFormed
    /\ \E s \in DOMAIN cfg.json :
          s = "OrderService" /\ "ip" \in DOMAIN cfg.json[s] /\ "port" \in DOMAIN cfg.json[s]

\* C14: a configuration failure is fatal and happens before any workload
\* processing: an invocation that ended on it read no workload line, left
\* the flag file and the database files as they were, did not invoke the
\* reset action and sent no request; and every invocation that does process
\* a workload runs with the base URL of a usable configuration.
ConfigFailureBeforeAnyProcessing ==
    /\ (pc = "fatal" /\ fatal = "ConfigError") =>
          /\ flag = flagAtStart
          /\ fs = fsAtStart
          /\ resetCalls = 0
          /\ requests = << >>
          /\ reported = << >>
          /\ lines = << >>
          /\ idx = 0
    /\ pc \in {"policy", "loop", "http", "done"} =>
          \E cfg \in ConfigSamples :
              /\ UsableConfig(cfg)
              /\ baseUrl = "http://" \o cfg.json["OrderService"]["ip"]
                              \o ":" \o cfg.json["OrderService"]["port"]

\* an invocation has ended on a configuration failure with the flag still
\* absent and a populated database file still populated
ConfigFailureLeftFilesAlone ==
    /\ pc = "fatal"
    /\ fatal = "ConfigError"
    /\ ~flag
    /\ fs[DbFiles[1]] = "populated"
    /\ resetCalls = 0

(***************************************************************************)
(* Order of the policy step and the dispatch (section 4.2).                *)
(***************************************************************************)
\* C15: the reset/flag policy is executed once per run and entirely before
\* dispatch: when a request is issued the policy step is over, the reset
\* action, if the run needed it, has completed (the three files are empty)
\* and the flag has been created (it is present unless a shutdown line was
\* processed since); and the reset action is only ever invoked before the
\* first line of the workload is processed, at most once.
PolicyBeforeDispatch ==
    /\ [][Len(requests') > Len(requests) =>
             /\ pc = "loop"
             /\ pc' = "http"
             /\ resetCalls' = resetCalls
             /\ fs' = fs
             /\ (~flagAtStart /\ ~FirstRealLineIsRestart) =>
                    (resetCalls = 1 /\ AllEmpty(fs))
             /\ (\A i \in Processed : lines[i] # "shutdown") => flag]_vars
    /\ [][resetCalls' > resetCalls =>
             /\ pc = "policy"
             /\ Processed = {}
             /\ resetCalls = 0
             /\ requests = << >>
             /\ reported = << >>]_vars

\* scenario A: a flag-absent run over a populated database is waiting for the
\* answer to its first request; the reset has emptied the files and the flag
\* exists
FirstRequestAfterResetAndFlag ==
    /\ pc = "http"
    /\ idx = 1
    /\ ~flagAtStart
    /\ fsAtStart[DbFiles[1]] = "populated"
    /\ lines[1] = "user get 1"
    /\ Len(requests) = 1
    /\ resetCalls = 1
    /\ AllEmpty(fs)
    /\ flag

(***************************************************************************)
(* Lines after a shutdown line (section 4.2).                              *)
(***************************************************************************)
\* a shutdown line stands before line i
AfterShutdown(i) == \E j \in 1..(i - 1) : lines[j] = "shutdown"

\* C16: a shutdown line does not terminate the line stream: a run ends only
\* when every line has been processed; every processed service line that
\* follows a shutdown line is dispatched as the table says of the line alone
\* (one request with the tabled method and URL when its arguments are well
\* formed, no request and one Failed outcome when they are not, nothing when
\* it is not tabled); and a shutdown line itself produces no request and no
\* outcome.
ShutdownDoesNotEndStream ==
    /\ pc = "done" => idx = Len(lines) + 1
    /\ \A i \in Processed : \A f \in {Facts(i)} :
          (ServiceLine(i) /\ AfterShutdown(i)) =>
              /\ WellFormed(i, f) =>
                    /\ Cardinality(RequestsOf(i)) = 1
                    /\ \A k \in RequestsOf(i) :
                          /\ requests[k].method = RowOf(f).method
                          /\ requests[k].url = TabledUrl(f)
              /\ (Tabled(i, f) /\ ~WellFormed(i, f)) =>
                    (RequestsOf(i) = {} /\ ReportedFailed(i))
              /\ ~Tabled(i, f) => (RequestsOf(i) = {} /\ ReportsOf(i) = {})
    /\ \A i \in 1..Len(lines) :
          lines[i] = "shutdown" => (RequestsOf(i) = {} /\ ReportsOf(i) = {})

\* a run has ended whose first line is shutdown: the two lookups after it
\* were both sent and answered, the flag is absent
TwoRequestsAfterShutdown ==
    /\ pc = "done"
    /\ lines = << "shutdown", "user get 1", "user get 1" >>
    /\ Len(requests) = 2
    /\ requests[1].line = 2
    /\ requests[2].line = 3
    /\ responses[1].status = 200
    /\ responses[2].status = 200
    /\ ~flag

(***************************************************************************)
(* A restart line in the line stream (section 4.2).                        *)
(***************************************************************************)
\* C17: processing a `restart` line changes no state: the step that finishes
\* it leaves the flag file and the database files unchanged, sends no
\* request, reports nothing, invokes no reset and goes on to the next line,
\* at any position of the workload; and a `restart` line that is not the
\* first real line has no influence on the reset: when the first real line
\* is not `restart` the reset ran exactly when the flag was absent at the
\* start.
RestartLineChangesNothing ==
    /\ [][\A i \in 1..Len(lines) :
            (pc = "loop" /\ idx = i /\ lines[i] = "restart") =>
                /\ pc' = "loop"
                /\ idx' = i + 1
                /\ UNCHANGED << flag, fs, resetCalls, requests, responses, reported >>]_vars
    /\ []((PolicyOver /\ ~FirstRealLineIsRestart) =>
             (resetCalls = 1 <=> ~flagAtStart))

\* a flag-absent run has just processed a restart line that follows a
\* shutdown line: the reset ran at the start and the flag is still absent
RestartAfterShutdownKeepsFlagAbsent ==
    /\ pc = "loop"
    /\ idx = 3
    /\ Len(lines) = 3
    /\ lines[1] = "shutdown"
    /\ lines[2] = "restart"
    /\ ~flagAtStart
    /\ resetCalls = 1
    /\ ~flag
    /\ requests = << >>

(***************************************************************************)
(* Consecutive runs on one filesystem (sections 3 and 4.2).                *)
(***************************************************************************)
\* this invocation follows a run: an invocation that got as far as
\* parse_workload (a malformed invocation or a configuration failure is over
\* before the run begins)
AfterAnotherRun == prev.ended \notin {"none", "usage", "ConfigError"}

\* this invocation invoked the reset action
Wiped == resetCalls >= 1

ResetFailureLeavesFlagAbsent ==
    /\ (pc = "fatal" /\ fatal = "IOError") =>
          /\ ~flagAtStart
          /\ ~flag
          /\ resetCalls = 1
          /\ idx = 0
          /\ requests = << >>
          /\ reported = << >>
    /\ prev.ended = "IOError" =>
          /\ ~flagAtStart
          /\ (PolicyOver /\ ~FirstRealLineIsRestart) => resetCalls = 1
          /\ (pc \in {"loop", "http", "done"} /\ ~FirstRealLineIsRestart) =>
                AllEmpty(fs)

\* the run after a failed reset has reset the files, created the flag and is
\* about to process its first line, a lookup
ResetAgainAfterFailure ==
    /\ prev.ended = "IOError"
    /\ pc = "loop"
    /\ idx = 1
    /\ Len(lines) >= 1
    /\ lines[1] = "user get 1"
    /\ resetCalls = 1
    /\ AllEmpty(fs)
    /\ flag

(***************************************************************************)
(* Spelling of the control keywords (section 4.2).                         *)
(***************************************************************************)
\* line i starts with a control keyword in some letter case but is not
\* exactly a control command
NearKeyword(i) ==
    /\ lines[i] \notin {"shutdown", "restart"}
    /\ Facts(i).service \in {"SHUTDOWN", "RESTART"}

\* C20: the control keywords are matched exactly and case-sensitively on the
\* stripped line: the step that processes a line such as `SHUTDOWN`,
\* `Restart` or `shutdown now` leaves the flag and the database files
\* unchanged and sends and reports nothing (the line is dropped as an unknown
\* service); and when such a line is the first real line it does not count
\* as `restart`: the reset runs exactly when the flag was absent at the
\* start.
KeywordsMatchedExactly ==
    /\ [][\A i \in 1..Len(lines) :
            (pc = "loop" /\ idx = i /\ NearKeyword(i)) =>
                /\ pc' = "loop"
                /\ idx' = i + 1
                /\ UNCHANGED << fatal, flag, fs, resetCalls, requests, responses,
                                reported >>]_vars
    /\ []((PolicyOver /\ \E i \in 1..Len(lines) : FirstReal(i) /\ NearKeyword(i)) =>
             (resetCalls = 1 <=> ~flagAtStart))
    /\ []((pc = "done" /\ \A i \in 1..Len(lines) : lines[i] # "shutdown") => flag)

\* a flag-absent run over [Restart, SHUTDOWN] has ended: the reset ran, the
\* flag was created and kept, nothing was sent or reported
NearKeywordsAreNotCommands ==
    /\ pc = "done"
    /\ lines = << "Restart", "SHUTDOWN" >>
    /\ ~flagAtStart
    /\ resetCalls = 1
    /\ flag
    /\ requests = << >>
    /\ reported = << >>

====
